---------------------------- MODULE Spec2Model ----------------------------
(***************************************************************************)
(* A model of JoltPhysics' CharacterVirtual (CharacterVirtual.cpp).        *)
(*                                                                         *)
(* Number representation.  The code computes in 32 bit floats; the model   *)
(* computes in fixed point:                                                *)
(*   - lengths and distances in millimetres        (1 m   = Unit),         *)
(*   - velocities in millimetres per second        (1 m/s = Unit),         *)
(*   - times in 1/TimeUnit seconds                 (1 s   = TimeUnit),     *)
(*   - fractions, cosines and rates in 1/Unit      (1.0   = Unit),         *)
(*   - components of unit vectors in 1/NUnit       (1.0   = NUnit),        *)
(*   - impulses in mN s.                                                   *)
(* A vector is a tuple <<x, y, z>>.  Divisions round to the nearest        *)
(* integer, as float operations round to the nearest float.  TLC's         *)
(* integers have 32 bits: the resolutions keep every product below 2^31.   *)
(***************************************************************************)
EXTENDS Integers, Sequences, FiniteSets, TLC

VARIABLES
    \* the character
    mPosition,           \* Vec3
    mLinearVelocity,     \* Vec3, or NaN3
    mShape,              \* a shape handle, NoShape for nullptr
    mCosMaxSlopeAngle,   \* in 1/Unit
    mListener,           \* TRUE when a listener is installed (mListener != nullptr)
    mActiveContacts,     \* sequence of Contact
    acCapacity,          \* capacity of the buffer of mActiveContacts
    mSupportingContact,  \* pointer into mActiveContacts: [buf, idx]
    \* the host
    world,               \* the colliders around the character
    locks,               \* body locks held by the character: set of [body, mode]
    impulses,            \* impulses given to bodies by AddImpulse: sequence of
                         \* [body, impulse], with the normal, gravity and dt of the call
    \* the calls in progress
    pc,                  \* position in Update
    call,                \* the last public call, its arguments and its result
    nOps,                \* number of public calls made
    nUpdates,            \* number of calls of Update made
    upd,                 \* locals of Update and MoveShape
    contacts,            \* MoveShape's contacts
    ignored_contacts,    \* MoveShape's ignored_contacts
    constraints,         \* MoveShape's constraints
    sc,                  \* locals of SolveConstraints
    sweep,               \* locals of GetFirstContactForSweep
    \* RemoveConflictingContacts on its own
    rcc                  \* [in, out, ign, done]

----------------------------------------------------------------------------
(* Fixed point resolution *)
Unit == 10^3
NUnit == 10^2
TimeUnit == 10^4

(* Bounds of the model *)
MaxLen == 3          \* longest contact list given to RemoveConflictingContacts alone
MaxContacts == 2     \* most hits a collision query of the host returns
MaxOps == 2          \* most public calls in a behaviour
MaxUpdates == 1      \* most calls of Update among them

(* Constants of CharacterVirtual.h *)
cCharacterPadding == 20
cCollisionTolerance == 1
cMinTimeRemaining == 1
cMaxCollisionIterations == 5
cMaxConstraintIterations == 15

(* EMotionType *)
Static == 0
Kinematic == 1
Dynamic == 2

----------------------------------------------------------------------------
(* Arithmetic helpers *)
Abs(a) == IF a < 0 THEN -a ELSE a
Sign(a) == IF a < 0 THEN -1 ELSE IF a > 0 THEN 1 ELSE 0
Min(a, b) == IF a < b THEN a ELSE b
Max(a, b) == IF a < b THEN b ELSE a

\* a / b rounded to the nearest integer, halves away from zero (b # 0)
RDiv(a, b) == Sign(a) * Sign(b) * ((2 * Abs(a) + Abs(b)) \div (2 * Abs(b)))

RECURSIVE ISqrtFrom(_, _)
ISqrtFrom(n, r) == IF r * r <= n THEN r ELSE ISqrtFrom(n, (r + n \div r) \div 2)
\* floor of the square root of n >= 0 (Newton's iteration from above)
ISqrt(n) == IF n < 2 THEN n ELSE ISqrtFrom(n, Min(n, 46340))

(* Vec3 *)
Zero3 == <<0, 0, 0>>
VAdd(a, b) == <<a[1] + b[1], a[2] + b[2], a[3] + b[3]>>
VSub(a, b) == <<a[1] - b[1], a[2] - b[2], a[3] - b[3]>>
VNeg(a) == <<-a[1], -a[2], -a[3]>>
Dot(a, b) == a[1] * b[1] + a[2] * b[2] + a[3] * b[3]
Cross(a, b) == <<a[2] * b[3] - a[3] * b[2], a[3] * b[1] - a[1] * b[3], a[1] * b[2] - a[2] * b[1]>>
LengthSq(a) == Dot(a, a)
\* v * k / d, each component rounded
VScale(v, k, d) == <<RDiv(v[1] * k, d), RDiv(v[2] * k, d), RDiv(v[3] * k, d)>>
\* Vec3::Normalized: the vector of length NUnit in the direction of v (v # 0)
Normalized(v) == VScale(v, NUnit, ISqrt(LengthSq(v)))
\* Vec3::GetY of a unit vector, in 1/Unit
GetY(n) == n[2] * (Unit \div NUnit)

----------------------------------------------------------------------------
(* RemoveConflictingContacts *)

cMinRequiredPenetration == 5 + cCharacterPadding

IgnoredContact(c) == [body |-> c.body, sub |-> c.sub]

SeqsUpTo(S, n) == UNION {[1..k -> S] : k \in 0..n}

RemoveAt(s, i) == SubSeq(s, 1, i - 1) \o SubSeq(s, i + 1, Len(s))

\* the condition under which the inner loop discards one of contact1, contact2
Conflicting(contact1, contact2) ==
    /\ contact1.body = contact2.body
    /\ contact2.dist <= -cMinRequiredPenetration
    /\ Dot(contact1.normal, contact2.normal) < 0

\* "discard contacts with the least amount of penetration", the other way round
DiscardSecondWhenDeeper(contact1, contact2) == contact1.dist > contact2.dist
\* "discard contacts with the least amount of penetration": whether the 2nd
\* contact is the one to discard
DiscardSecond(contact1, contact2) == contact1.dist < contact2.dist

\* The loops of RemoveConflictingContacts.  Indices are 1-based: the code's
\* c1, c2 are c1 - 1, c2 - 1 here.  The result is [contacts, ignored].
RECURSIVE RCCInner(_, _, _, _)
RECURSIVE RCCOuter(_, _, _)
\* RCCInner without the c2-- after erasing the 2nd contact: the contact that
\* moves into slot c2 is never compared with contact1
RCCInnerNoStepBack(ioContacts, ignored, c1, c2) ==
    IF c2 > Len(ioContacts)
    THEN RCCOuter(ioContacts, ignored, c1 + 1)
    ELSE IF Conflicting(ioContacts[c1], ioContacts[c2])
         THEN IF DiscardSecond(ioContacts[c1], ioContacts[c2])
              THEN RCCInner(RemoveAt(ioContacts, c2),
                            Append(ignored, IgnoredContact(ioContacts[c2])), c1, c2 + 1)
              ELSE RCCOuter(RemoveAt(ioContacts, c1),
                            Append(ignored, IgnoredContact(ioContacts[c1])), c1)
         ELSE RCCInner(ioContacts, ignored, c1, c2 + 1)
RCCInner(ioContacts, ignored, c1, c2) ==
    IF c2 > Len(ioContacts)
    THEN RCCOuter(ioContacts, ignored, c1 + 1)
    ELSE IF Conflicting(ioContacts[c1], ioContacts[c2])
         THEN IF DiscardSecond(ioContacts[c1], ioContacts[c2])
              THEN \* discard the 2nd contact; c2-- then c2++
                   RCCInner(RemoveAt(ioContacts, c2),
                            Append(ignored, IgnoredContact(ioContacts[c2])), c1, c2)
              ELSE \* discard the first contact; c1-- then break then c1++
                   RCCOuter(RemoveAt(ioContacts, c1),
                            Append(ignored, IgnoredContact(ioContacts[c1])), c1)
         ELSE RCCInner(ioContacts, ignored, c1, c2 + 1)
RCCOuter(ioContacts, ignored, c1) ==
    IF c1 > Len(ioContacts)
    THEN [contacts |-> ioContacts, ignored |-> ignored]
    ELSE IF ioContacts[c1].dist <= -cMinRequiredPenetration
         THEN RCCInner(ioContacts, ignored, c1, c1 + 1)
         ELSE RCCOuter(ioContacts, ignored, c1 + 1)

RemoveConflictingContacts(ioContacts, outIgnoredContacts) ==
    RCCOuter(ioContacts, outIgnoredContacts, 1)

----------------------------------------------------------------------------
(* The host: what the narrow phase reports and what a body is.  A hit is   *)
(* a CollideShapeResult / ShapeCastResult together with the properties of  *)
(* the body it is on: [body, sub, motion, axis, depth, vel, effMass].      *)

FLT_MAX == 10^9
NaN3 == <<-FLT_MAX, -FLT_MAX, -FLT_MAX>>

Hit(b, s, m, axis, depth, v) ==
    [body |-> b, sub |-> s, motion |-> m, axis |-> axis, depth |-> depth, vel |-> v]

Ground   == Hit(1, 1, Static,    <<0, -NUnit, 0>>,  -20, Zero3)
Ceiling  == Hit(2, 1, Static,    <<0, NUnit, 0>>,   -20, Zero3)
Slope    == Hit(3, 1, Static,    <<80, -60, 0>>,     10, Zero3)
Platform == Hit(4, 1, Kinematic, <<0, -NUnit, 0>>,  -20, <<0, 3000, 0>>)
Crate    == Hit(5, 1, Dynamic,   <<NUnit, 0, 0>>,   -15, Zero3)
WallA    == Hit(6, 1, Static,    <<NUnit, 0, 0>>,   480, Zero3)
WallB    == Hit(6, 2, Static,    <<-NUnit, 0, 0>>,   10, Zero3)
ZWall    == Hit(7, 1, Static,    <<0, 0, NUnit>>,   -30, Zero3)
Press    == Hit(9, 1, Kinematic, <<0, NUnit, 0>>,   -20, <<0, -3000, 0>>)

Scenes == {{Ground, Ceiling}, {Slope, ZWall}, {Platform, Crate}, {WallA, WallB},
           {Platform, Ceiling}, {Ground, Press}}

\* what a collision query may report: up to MaxContacts colliders of the
\* world, in any order (a body whose lock fails in AddHit is a hit left out)
Injective(f) == \A i, j \in DOMAIN f : i # j => f[i] # f[j]
Queries(w) == {q \in SeqsUpTo(w, MaxContacts) : Injective(q)}

Shapes == {"standing", "crouching"}
NoShape == "nullptr"

----------------------------------------------------------------------------
(* Contacts and their collection *)

NormalizedOr(v, z) == IF LengthSq(v) = 0 THEN z ELSE Normalized(v)

sFillContactProperties(hit) ==
    [body |-> hit.body, sub |-> hit.sub, motion |-> hit.motion,
     normal |-> VNeg(NormalizedOr(hit.axis, Zero3)),
     dist |-> -hit.depth, vel |-> hit.vel,
     frac |-> 0, had |-> FALSE, disc |-> FALSE, push |-> TRUE]

Acquire(lk, body, mode) == lk \cup {[body |-> body, mode |-> mode]}
Release(lk, body, mode) == lk \ {[body |-> body, mode |-> mode]}

\* ContactCollector::AddHit on st = [contacts, locks]; the read lock is
\* scoped to the call
ContactCollector_AddHit(st, hit) ==
    LET locked == Acquire(st.locks, hit.body, "read")
        contact == [sFillContactProperties(hit) EXCEPT !.frac = 0]
    IN [contacts |-> Append(st.contacts, contact),
        locks |-> Release(locked, hit.body, "read")]

RECURSIVE CollideShape(_, _)
CollideShape(st, hits) ==
    IF hits = <<>> THEN st
    ELSE CollideShape(ContactCollector_AddHit(st, Head(hits)), Tail(hits))

\* GetContactsAtPosition given the hits the host reports: [contacts, locks]
GetContactsAtPosition(hits, lk) ==
    LET st == CollideShape([contacts |-> <<>>, locks |-> lk], hits)
    IN [contacts |-> [i \in 1..Len(st.contacts) |->
                        [st.contacts[i] EXCEPT !.dist = @ - cCharacterPadding]],
        locks |-> st.locks]

----------------------------------------------------------------------------
(* The supporting contact *)

NullPtr == [buf |-> "null", idx |-> 0]
PtrTo(i) == [buf |-> "cur", idx |-> i]

\* the second loop of UpdateSupportingContact, from contact i on
RECURSIVE FindSupporting(_, _, _, _)
\* FindSupporting without the test of mHadCollision
FindSupportingAnyContact(active, i, best, max_y) ==
    IF i > Len(active) THEN best
    ELSE IF max_y < GetY(active[i].normal)
         THEN FindSupporting(active, i + 1, PtrTo(i), GetY(active[i].normal))
         ELSE FindSupporting(active, i + 1, best, max_y)
FindSupporting(active, i, best, max_y) ==
    IF i > Len(active) THEN best
    ELSE IF active[i].had /\ max_y < GetY(active[i].normal)
         THEN FindSupporting(active, i + 1, PtrTo(i), GetY(active[i].normal))
         ELSE FindSupporting(active, i + 1, best, max_y)

\* the first loop of UpdateSupportingContact
FlagCollisions(active) ==
    [i \in 1..Len(active) |->
        IF ~active[i].disc
        THEN [active[i] EXCEPT !.had = @ \/ (active[i].dist < cCollisionTolerance)]
        ELSE active[i]]

\* UpdateSupportingContact with max_y starting at 0 instead of -FLT_MAX
UpdateSupportingContactFromZero(active) ==
    LET flagged == FlagCollisions(active)
    IN [active |-> flagged,
        supporting |-> FindSupporting(flagged, 1, NullPtr, 0)]
\* UpdateSupportingContact on the contacts in mActiveContacts: [active, supporting]
UpdateSupportingContact(active) ==
    LET flagged == FlagCollisions(active)
    IN [active |-> flagged,
        supporting |-> FindSupporting(flagged, 1, NullPtr, -FLT_MAX)]

\* std::vector's copy assignment to mActiveContacts: a longer vector than
\* the capacity takes a new buffer and frees the old one, and a pointer into
\* the old buffer dangles
AssignCapacity(cap, n) == IF n > cap THEN n ELSE cap
AssignPointer(ptr, cap, n) ==
    IF n > cap /\ ptr.buf = "cur" THEN [ptr EXCEPT !.buf = "freed"] ELSE ptr

\* StoreActiveContacts
StoreActiveContacts(inContacts) ==
    LET r == UpdateSupportingContact(inContacts)
    IN /\ mActiveContacts' = r.active
       /\ acCapacity' = AssignCapacity(acCapacity, Len(inContacts))
       /\ mSupportingContact' = r.supporting

\* GetGroundState without the test for "no limit"
GetGroundStateAlwaysLimited ==
    IF mSupportingContact = NullPtr THEN "InAir"
    ELSE IF /\ GetY(mActiveContacts[mSupportingContact.idx].normal) >= 0
            /\ GetY(mActiveContacts[mSupportingContact.idx].normal) < mCosMaxSlopeAngle
         THEN "Sliding"
         ELSE "OnGround"
\* GetGroundState, for a supporting contact that can be dereferenced
GetGroundState ==
    IF mSupportingContact = NullPtr THEN "InAir"
    ELSE IF /\ mCosMaxSlopeAngle < 999
            /\ GetY(mActiveContacts[mSupportingContact.idx].normal) >= 0
            /\ GetY(mActiveContacts[mSupportingContact.idx].normal) < mCosMaxSlopeAngle
         THEN "Sliding"
         ELSE "OnGround"

----------------------------------------------------------------------------
(* The public calls that run in one step *)

\* the last public call: its name, its arguments (shape, maxPen), the
\* contacts it queried, the character before it and what it returned (ret
\* of SetShape, ground of GetGroundState)
NoCall ==
    [op |-> "none", ret |-> TRUE, ground |-> "none", shape |-> NoShape, maxPen |-> 0,
     queried |-> <<>>, preShape |-> NoShape, preActive |-> <<>>,
     preSupporting |-> NullPtr]

Idle == pc = "idle" /\ nOps < MaxOps

frame == <<upd, contacts, ignored_contacts, constraints, sc, sweep, nUpdates>>

\* GetGroundState called between two calls
GetGroundStateCall ==
    /\ pc = "idle"
    /\ call.op # "GetGroundState"
    /\ call' = [NoCall EXCEPT !.op = "GetGroundState", !.ground = GetGroundState]
    /\ UNCHANGED <<mPosition, mLinearVelocity, mShape, mCosMaxSlopeAngle, mListener,
                   mActiveContacts, acCapacity, mSupportingContact, world, locks, impulses,
                   pc, nOps, frame, rcc>>

SetLinearVelocity(v) ==
    /\ Idle
    /\ mLinearVelocity # v
    /\ mLinearVelocity' = v
    /\ nOps' = nOps + 1
    /\ call' = [NoCall EXCEPT !.op = "SetLinearVelocity"]
    /\ UNCHANGED <<mPosition, mShape, mCosMaxSlopeAngle, mListener, mActiveContacts,
                   acCapacity, mSupportingContact, world, locks, impulses, pc, frame, rcc>>

RefreshContacts(hits) ==
    /\ Idle
    /\ mShape # NoShape
    /\ LET r == GetContactsAtPosition(hits, locks)
       IN /\ StoreActiveContacts(r.contacts)
          /\ locks' = r.locks
          /\ call' = [NoCall EXCEPT !.op = "RefreshContacts", !.queried = r.contacts]
    /\ nOps' = nOps + 1
    /\ UNCHANGED <<mPosition, mLinearVelocity, mShape, mCosMaxSlopeAngle, mListener,
                   world, impulses, pc, frame, rcc>>

\* OverPenetrates with the padding taken out of the distance
OverPenetratesUnpadded(cs, inMaxPenetrationDepth) ==
    /\ inMaxPenetrationDepth < FLT_MAX
    /\ \E i \in 1..Len(cs) : cs[i].dist + cCharacterPadding < -inMaxPenetrationDepth
\* some contact penetrates further than inMaxPenetrationDepth
OverPenetrates(cs, inMaxPenetrationDepth) ==
    /\ inMaxPenetrationDepth < FLT_MAX
    /\ \E i \in 1..Len(cs) : cs[i].dist < -inMaxPenetrationDepth

SetShapeCall(inShape, inMaxPenetrationDepth, q, ret) ==
    [NoCall EXCEPT !.op = "SetShape", !.ret = ret, !.shape = inShape,
                   !.maxPen = inMaxPenetrationDepth, !.queried = q, !.preShape = mShape,
                   !.preActive = mActiveContacts, !.preSupporting = mSupportingContact]

SetShape(inShape, inMaxPenetrationDepth, hits) ==
    /\ Idle
    /\ nOps' = nOps + 1
    /\ UNCHANGED <<mPosition, mLinearVelocity, mCosMaxSlopeAngle, mListener,
                   world, impulses, pc, frame, rcc>>
    /\ \/ \* it hasn't been initialized yet
          /\ mShape = NoShape
          /\ hits = <<>>
          /\ mShape' = inShape
          /\ call' = SetShapeCall(inShape, inMaxPenetrationDepth, <<>>, TRUE)
          /\ UNCHANGED <<mActiveContacts, acCapacity, mSupportingContact, locks>>
       \/ \* the same shape, or no shape
          /\ mShape # NoShape
          /\ ~(inShape # mShape /\ inShape # NoShape)
          /\ hits = <<>>
          /\ call' = SetShapeCall(inShape, inMaxPenetrationDepth, <<>>, mShape = inShape)
          /\ UNCHANGED <<mShape, mActiveContacts, acCapacity, mSupportingContact, locks>>
       \/ \* a new shape
          /\ mShape # NoShape
          /\ inShape # mShape /\ inShape # NoShape
          /\ LET r == GetContactsAtPosition(hits, locks)
             IN /\ locks' = r.locks
                /\ IF OverPenetrates(r.contacts, inMaxPenetrationDepth)
                   THEN /\ call' = SetShapeCall(inShape, inMaxPenetrationDepth, r.contacts, FALSE)
                        /\ UNCHANGED <<mShape, mActiveContacts, acCapacity, mSupportingContact>>
                   ELSE /\ mShape' = inShape
                        /\ StoreActiveContacts(r.contacts)
                        /\ call' = SetShapeCall(inShape, inMaxPenetrationDepth, r.contacts, TRUE)

----------------------------------------------------------------------------
(* DetermineConstraints *)

\* settings copied by the constructor
mPenetrationRecoverySpeed == Unit
mMaxStrength == 1000
mMass == 70

\* a Constraint: mContact is an index into contacts; the plane is
\* (normal, dist); pv is mProjectedVelocity in 1/NUnit mm/s
Constraint(ci, v, n, d) ==
    [contact |-> ci, vel |-> v, normal |-> n, dist |-> d, pv |-> 0, toi |-> 0]

\* the contact velocity, with the push out of a penetrating contact
ContactVelocity(c) ==
    IF c.dist < 0
    THEN VSub(c.vel, VScale(c.normal, c.dist * mPenetrationRecoverySpeed, NUnit * Unit))
    ELSE c.vel

TooSteep(n) ==
    /\ mCosMaxSlopeAngle < 999
    /\ GetY(n) >= 0
    /\ GetY(n) < mCosMaxSlopeAngle

ConstraintsOf(inCharacterVelocity, c, ci) ==
    LET contact_velocity == ContactVelocity(c)
        relative_velocity == VSub(inCharacterVelocity, contact_velocity)
        projected_velocity == Dot(c.normal, relative_velocity)
        normal == Normalized(<<c.normal[1], 0, c.normal[3]>>)
    IN IF projected_velocity >= 0 THEN <<>>
       ELSE <<Constraint(ci, contact_velocity, c.normal, c.dist)>>
            \o (IF TooSteep(c.normal)
                THEN <<Constraint(ci, VScale(normal, Dot(contact_velocity, normal), NUnit * NUnit),
                                  normal, RDiv(c.dist * NUnit * NUnit, Dot(normal, c.normal)))>>
                ELSE <<>>)

RECURSIVE DetermineConstraintsFrom(_, _, _)
DetermineConstraintsFrom(inCharacterVelocity, inContacts, ci) ==
    IF ci > Len(inContacts) THEN <<>>
    ELSE ConstraintsOf(inCharacterVelocity, inContacts[ci], ci)
         \o DetermineConstraintsFrom(inCharacterVelocity, inContacts, ci + 1)

DetermineConstraints(inCharacterVelocity, inContacts) ==
    DetermineConstraintsFrom(inCharacterVelocity, inContacts, 1)

----------------------------------------------------------------------------
(* SolveConstraints *)

\* v * t for a velocity in mm/s and a time in 1/TimeUnit s: millimetres
VTimes(v, t) == VScale(v, t, TimeUnit)

\* the time of impact of constraint c for the current velocity, displacement
\* and time remaining
WithTOI(c, velocity, displacement, inTimeRemaining) ==
    LET pv == Dot(c.normal, VSub(c.vel, velocity))
        \* the distance to the plane in 1/NUnit mm
        dist == Dot(c.normal, displacement) + c.dist * NUnit
    IN IF pv < 1
       THEN [c EXCEPT !.pv = pv, !.toi = FLT_MAX]
       ELSE IF dist * TimeUnit - pv * inTimeRemaining > -(NUnit * Unit)
            THEN [c EXCEPT !.pv = pv, !.toi = FLT_MAX]
            ELSE [c EXCEPT !.pv = pv, !.toi = Max(0, RDiv(dist * TimeUnit, pv))]

\* the comparison of the sort of sorted_constraints
SortsBefore(cs, lhs, rhs) ==
    IF lhs.toi <= 0 /\ rhs.toi <= 0
    THEN lhs.pv > rhs.pv
    ELSE IF lhs.toi # rhs.toi
         THEN lhs.toi < rhs.toi
         ELSE cs[lhs.contact].motion > cs[rhs.contact].motion

\* the orders std::sort may leave n constraints in
Orderings(n) == {f \in [1..n -> 1..n] : Injective(f)}
SortedOrders(cons, cs) ==
    {f \in Orderings(Len(cons)) :
        \A i, j \in 1..Len(cons) : i < j => ~SortsBefore(cs, cons[f[j]], cons[f[i]])}

NoChoice == 0

SolveInit(inVelocity, inTimeRemaining) ==
    [velocity |-> inVelocity, displacement |-> Zero3, time_simulated |-> 0,
     time_remaining |-> inTimeRemaining, iteration |-> 0, previous |-> <<>>,
     sorted |-> <<>>, k |-> NoChoice, hcContact |-> NoChoice, hcRet |-> "none",
     hcVetoed |-> FALSE, hcLockFailed |-> FALSE, hcCalls |-> <<>>]

\* "check if we made contact with this before", with the answer always no
NeedsHandleContactAlways(contact) == TRUE
\* "check if we made contact with this before": whether SolveConstraints
\* calls HandleContact for the contact of the constraint it looks at
NeedsHandleContact(contact) == ~contact.had

\* "we can reach our goal": the rest of the time is spent at the current velocity
TimeToGoalOverrun(s, inDeltaTime) == inDeltaTime
TimeToGoal(s, inDeltaTime) == s.time_remaining

ReachGoal(s, inDeltaTime) ==
    [s EXCEPT !.displacement = VAdd(@, VTimes(s.velocity, TimeToGoal(s, inDeltaTime))),
              !.time_simulated = @ + TimeToGoal(s, inDeltaTime)]

\* the previous contact that the new velocity violates the most: an index
\* into constraints, or NoChoice
RECURSIVE OtherConstraint(_, _, _, _, _, _, _)
OtherConstraint(cons, previous, i, chosen, new_velocity, highest_penetration, other) ==
    IF i > Len(previous) THEN other
    ELSE LET c == cons[previous[i]]
             penetration == Dot(VSub(c.vel, new_velocity), c.normal)
             dot == Dot(c.normal, cons[chosen].normal)
         IN IF /\ previous[i] # chosen
               /\ penetration > highest_penetration
               /\ dot * Unit < 984 * NUnit * NUnit /\ dot * Unit > -984 * NUnit * NUnit
            THEN OtherConstraint(cons, previous, i + 1, chosen, new_velocity, penetration, previous[i])
            ELSE OtherConstraint(cons, previous, i + 1, chosen, new_velocity, highest_penetration, other)

\* v minus its part along n, when that part points against n
CancelAgainst(v, n) == VSub(v, VScale(n, Min(0, Dot(v, n)), NUnit * NUnit))
\* the part of v along the unit vector n
Along(v, n) == VScale(n, Dot(v, n), NUnit * NUnit)

----------------------------------------------------------------------------
(* Update, step by step.  pc is the place in Update:                       *)
(*   ms_query     MoveShape, at the start of a move-iteration              *)
(*   sc_iter      SolveConstraints, at the start of a solver iteration     *)
(*   sc_pick      SolveConstraints, looking at sorted_constraints[k]       *)
(*   hc_validate  HandleContact, in ValidateContact                        *)
(*   hc_added     HandleContact, in the listener's OnContactAdded          *)
(*   hc_lock      HandleContact, taking the write lock                     *)
(*   hc_impulse   HandleContact, holding the write lock                    *)
(*   sc_advance   SolveConstraints, with the constraint to collide with    *)
(*   ms_store     MoveShape, SolveConstraints has returned                 *)
(*   sw_check     GetFirstContactForSweep, looking at contacts[i]          *)
(*   sw_validate  GetFirstContactForSweep, in ValidateContact              *)
(*   ms_advance   MoveShape, the sweep has returned                        *)
(*   upd_end      Update, MoveShape has returned                           *)

\* the condition of SolveConstraints' loop without the iteration limit
SolveLoopContinuesAlways(iteration) == TRUE
\* the condition of SolveConstraints' loop
SolveLoopContinues(iteration) == iteration < cMaxConstraintIterations

\* upd.supported is the (body, sub shape) of the contact mSupportingContact
\* refers to when Update is called, NoContact when it is null
NoContact == <<>>
NoUpdate ==
    [dt |-> 0, gravity |-> Zero3, vin |-> Zero3, old_position |-> Zero3,
     time_remaining |-> 0, iteration |-> 0, iterations |-> 0, calm |-> TRUE,
     supported |-> NoContact]
NoSweep == [contacts |-> <<>>, i |-> NoChoice, found |-> FALSE, fraction |-> 0]

\* the condition of MoveShape's loop
MoveLoopContinuesAlways(iteration, time_remaining) ==
    iteration < cMaxCollisionIterations
MoveLoopContinues(iteration, time_remaining) ==
    iteration < cMaxCollisionIterations /\ time_remaining >= cMinTimeRemaining

\* "time_remaining -= time_simulated" without the subtraction
TimeRemainingKept(time_remaining, time_simulated) == time_remaining
\* "time_remaining -= time_simulated"
TimeRemainingAfter(time_remaining, time_simulated) == time_remaining - time_simulated

MoveLoopTarget(iteration, time_remaining) ==
    IF MoveLoopContinues(iteration, time_remaining) THEN "ms_query" ELSE "upd_end"

character == <<mPosition, mLinearVelocity, mShape, mCosMaxSlopeAngle, mListener,
               mActiveContacts, acCapacity, mSupportingContact>>

UpdateBegin(inDeltaTime, inGravity) ==
    /\ Idle
    /\ mShape # NoShape
    /\ mLinearVelocity # NaN3
    /\ nUpdates < MaxUpdates
    /\ nUpdates' = nUpdates + 1
    /\ nOps' = nOps + 1
    /\ call' = [NoCall EXCEPT !.op = "Update"]
    /\ upd' = [NoUpdate EXCEPT !.dt = inDeltaTime, !.gravity = inGravity,
                               !.vin = mLinearVelocity, !.old_position = mPosition,
                               !.time_remaining = inDeltaTime,
                               !.supported =
                                   IF mSupportingContact = NullPtr THEN NoContact
                                   ELSE IgnoredContact(mActiveContacts[mSupportingContact.idx])]
    /\ pc' = MoveLoopTarget(0, inDeltaTime)
    /\ UNCHANGED <<character, world, locks, impulses, contacts, ignored_contacts,
                   constraints, sc, sweep, rcc>>

\* no contact moves or penetrates
Calm(cs) == \A i \in 1..Len(cs) : cs[i].vel = Zero3 /\ cs[i].dist >= 0

\* a move-iteration up to the call of SolveConstraints
MS_Query(hits) ==
    /\ pc = "ms_query"
    /\ LET r == GetContactsAtPosition(hits, locks)
           pruned == RemoveConflictingContacts(r.contacts, <<>>)
           cons == DetermineConstraints(upd.vin, pruned.contacts)
           s == [SolveInit(upd.vin, upd.time_remaining) EXCEPT
                    !.hcCalls = [i \in 1..Len(pruned.contacts) |-> 0]]
       IN /\ locks' = r.locks
          /\ contacts' = pruned.contacts
          /\ ignored_contacts' = pruned.ignored
          /\ constraints' = cons
          /\ upd' = [upd EXCEPT !.calm = @ /\ Calm(r.contacts), !.iterations = @ + 1]
          /\ IF cons = <<>>
             THEN \* no constraints: move to the target
                  /\ sc' = [s EXCEPT !.displacement = VTimes(upd.vin, upd.time_remaining),
                                     !.time_simulated = upd.time_remaining]
                  /\ pc' = "ms_store"
             ELSE /\ sc' = s
                  /\ pc' = "sc_iter"
    /\ sweep' = NoSweep
    /\ UNCHANGED <<character, world, impulses, call, nOps, nUpdates, rcc>>

\* a solver iteration: the times of impact and the sort
SC_Iter(order) ==
    /\ pc = "sc_iter"
    /\ LET cons == [i \in 1..Len(constraints) |->
                      WithTOI(constraints[i], sc.velocity, sc.displacement, sc.time_remaining)]
       IN /\ order \in SortedOrders(cons, contacts)
          /\ constraints' = cons
          /\ sc' = [sc EXCEPT !.sorted = order, !.k = 1]
    /\ pc' = "sc_pick"
    /\ UNCHANGED <<character, world, locks, impulses, call, nOps, nUpdates, upd, contacts,
                   ignored_contacts, sweep, rcc>>

\* "find the first valid constraint", at sorted_constraints[k]
SC_Pick ==
    /\ pc = "sc_pick"
    /\ UNCHANGED <<character, world, locks, impulses, call, nOps, nUpdates, upd, contacts,
                   ignored_contacts, constraints, sweep, rcc>>
    /\ IF sc.k > Len(sc.sorted)
       THEN \* all constraints were discarded
            /\ sc' = ReachGoal(sc, upd.dt)
            /\ pc' = "ms_store"
       ELSE LET c == constraints[sc.sorted[sc.k]]
            IN IF c.toi >= sc.time_remaining
               THEN /\ sc' = ReachGoal(sc, upd.dt)
                    /\ pc' = "ms_store"
               ELSE IF contacts[c.contact].disc
               THEN /\ sc' = [sc EXCEPT !.k = @ + 1]
                    /\ pc' = "sc_pick"
               ELSE IF NeedsHandleContact(contacts[c.contact])
               THEN \* HandleContact(velocity, *c, inGravity, inDeltaTime)
                    /\ sc' = [sc EXCEPT !.hcContact = c.contact, !.hcRet = "none",
                                        !.hcVetoed = FALSE, !.hcLockFailed = FALSE,
                                        !.hcCalls[c.contact] = @ + 1]
                    /\ pc' = "hc_validate"
               ELSE /\ sc' = sc
                    /\ pc' = "sc_advance"

----------------------------------------------------------------------------
(* HandleContact, called by SolveConstraints for contacts[sc.hcContact].   *)
(* sc.hcRet is its return value, sc.hcVetoed whether the listener vetoed   *)
(* the contact, sc.hcLockFailed whether the body could not be locked.      *)
(* sc.hcCalls[i] counts the calls for contacts[i] in this SolveConstraints.*)

\* HandleContact returns ret to SolveConstraints, which marks the contact
\* (cs: the contacts as HandleContact leaves them)
HC_Return(ret, cs, vetoed, lockFailed) ==
    /\ contacts' = IF ret THEN [cs EXCEPT ![sc.hcContact].had = TRUE]
                          ELSE [cs EXCEPT ![sc.hcContact].disc = TRUE]
    /\ sc' = [sc EXCEPT !.hcRet = IF ret THEN "true" ELSE "false",
                        !.hcVetoed = vetoed, !.hcLockFailed = lockFailed,
                        !.k = IF ret THEN @ ELSE @ + 1]
    /\ pc' = IF ret THEN "sc_advance" ELSE "sc_pick"

\* HandleContact after the contact added event, with the listener's settings
HC_AfterAdded(mCanPushCharacter, mCanReceiveImpulses) ==
    LET cs == [contacts EXCEPT ![sc.hcContact].push = mCanPushCharacter]
    IN IF ~mCanReceiveImpulses \/ contacts[sc.hcContact].motion # Dynamic
       THEN HC_Return(TRUE, cs, FALSE, FALSE)
       ELSE /\ contacts' = cs
            /\ sc' = sc
            /\ pc' = "hc_lock"

\* ValidateContact; answer is the listener's
HC_Validate(answer) ==
    /\ pc = "hc_validate"
    /\ UNCHANGED <<character, world, locks, impulses, call, nOps, nUpdates, upd,
                   ignored_contacts, constraints, sweep, rcc>>
    /\ IF mListener
       THEN IF answer
            THEN /\ pc' = "hc_added"
                 /\ UNCHANGED <<contacts, sc>>
            ELSE HC_Return(FALSE, contacts, TRUE, FALSE)
       ELSE \* no listener: valid, and the default CharacterContactSettings
            /\ answer
            /\ HC_AfterAdded(TRUE, TRUE)

\* the listener's OnContactAdded sets the settings
HC_Added(mCanPushCharacter, mCanReceiveImpulses) ==
    /\ pc = "hc_added"
    /\ HC_AfterAdded(mCanPushCharacter, mCanReceiveImpulses)
    /\ UNCHANGED <<character, world, locks, impulses, call, nOps, nUpdates, upd,
                   ignored_contacts, constraints, sweep, rcc>>

\* what HandleContact returns when the body cannot be locked
ReturnWhenLockFailsTrue == TRUE
ReturnWhenLockFails == FALSE

\* BodyLockWrite lock(...); succeeded: lock.SucceededAndIsInBroadPhase()
HC_Lock(succeeded) ==
    /\ pc = "hc_lock"
    /\ UNCHANGED <<character, world, impulses, call, nOps, nUpdates, upd,
                   ignored_contacts, constraints, sweep, rcc>>
    /\ IF succeeded
       THEN /\ locks' = Acquire(locks, contacts[sc.hcContact].body, "write")
            /\ pc' = "hc_impulse"
            /\ UNCHANGED <<contacts, sc>>
       ELSE /\ locks' = locks
            /\ HC_Return(ReturnWhenLockFails, contacts, FALSE, TRUE)

\* the effective mass of a body at a contact (1 / inv_effective_mass), in kg
EffectiveMass(body) == 10

\* the world space impulse for a contact, the character's velocity, gravity
\* and the time step (> 0), in mN s; NoImpulse when the bodies separate
NoImpulse == <<>>

\* "max_impulse = mMaxStrength * inDeltaTime", in mN s
MaxImpulse(inDeltaTime) == RDiv(mMaxStrength * inDeltaTime * Unit, TimeUnit)

\* "impulse = min(impulse, max_impulse)" without the clamp
ClampImpulseNot(impulse, max_impulse) == impulse
\* "impulse = min(impulse, max_impulse)"
ClampImpulse(impulse, max_impulse) == Min(impulse, max_impulse)

\* "the impulse due to gravity working on the player", P = M g dt, which
\* HandleContact subtracts from the world impulse
GravityShare(normal, inGravity, inDeltaTime) ==
    LET normal_dot_gravity == Dot(normal, inGravity)
        \* mMass * normal_dot_gravity / inGravity.Length() * inDeltaTime, in g s
        weight_time == RDiv(RDiv(mMass * normal_dot_gravity, ISqrt(LengthSq(inGravity)))
                            * inDeltaTime * (Unit \div NUnit), TimeUnit)
    IN IF normal_dot_gravity < 0 THEN VScale(inGravity, weight_time, Unit) ELSE Zero3

WorldImpulse(contact, inVelocity, inGravity, inDeltaTime) ==
    LET relative_velocity == VSub(inVelocity, contact.vel)
        projected_velocity == Dot(relative_velocity, contact.normal)
        \* delta_velocity * 10 * NUnit * inDeltaTime
        delta_velocity_n == -projected_velocity * 9 * inDeltaTime
                            - Min(contact.dist, 0) * 4 * TimeUnit * NUnit
        delta_velocity == RDiv(delta_velocity_n, 10 * NUnit * inDeltaTime)
        max_impulse == MaxImpulse(inDeltaTime)
        impulse == ClampImpulse(delta_velocity * EffectiveMass(contact.body), max_impulse)
        world_impulse == VScale(contact.normal, -impulse, NUnit)
    IN IF delta_velocity_n < 0 THEN NoImpulse
       ELSE VSub(world_impulse, GravityShare(contact.normal, inGravity, inDeltaTime))

\* the locks held when HandleContact returns after it locked the body
LocksAtReturnKept(lk, body) == lk
LocksAtReturn(lk, body) == Release(lk, body, "write")

\* HandleContact with the body locked
HC_Impulse ==
    /\ pc = "hc_impulse"
    /\ LET contact == contacts[sc.hcContact]
           world_impulse == WorldImpulse(contact, sc.velocity, upd.gravity, upd.dt)
       IN /\ impulses' = IF world_impulse = NoImpulse THEN impulses
                         ELSE Append(impulses, [body |-> contact.body, impulse |-> world_impulse,
                                                 normal |-> contact.normal,
                                                 gravity |-> upd.gravity, dt |-> upd.dt])
          /\ locks' = LocksAtReturn(locks, contact.body)
    /\ HC_Return(TRUE, contacts, FALSE, FALSE)
    /\ UNCHANGED <<character, world, call, nOps, nUpdates, upd, ignored_contacts, constraints,
                   sweep, rcc>>

----------------------------------------------------------------------------
(* SolveConstraints with the constraint to collide with,                   *)
(* constraints[sc.sorted[sc.k]]: the rest of the solver iteration.         *)

SC_Advance ==
    /\ pc = "sc_advance"
    /\ UNCHANGED <<character, world, locks, impulses, call, nOps, nUpdates, upd, contacts,
                   ignored_contacts, sweep, rcc>>
    /\ LET chosen == sc.sorted[sc.k]
           \* cancel the velocity of a constraint that cannot push the character
           cons1 == IF ~contacts[constraints[chosen].contact].push
                    THEN [constraints EXCEPT ![chosen].vel = Zero3]
                    ELSE constraints
           constraint == cons1[chosen]
           \* move to the contact
           moved == [sc EXCEPT
                       !.displacement = VAdd(@, VTimes(sc.velocity, constraint.toi)),
                       !.time_remaining = @ - constraint.toi,
                       !.time_simulated = @ + constraint.toi]
           previous1 == IF constraint.toi > 1 THEN <<>> ELSE sc.previous
           plane_normal == constraint.normal
           relative_velocity == VSub(sc.velocity, constraint.vel)
           new_velocity == VSub(sc.velocity, Along(relative_velocity, plane_normal))
           other == OtherConstraint(cons1, previous1, 1, chosen, new_velocity, 0, NoChoice)
           other_normal == cons1[other].normal
           slide_dir == Normalized(Cross(plane_normal, other_normal))
           velocity_in_slide_dir == Along(new_velocity, slide_dir)
           constraint_vel == CancelAgainst(constraint.vel, other_normal)
           other_vel == CancelAgainst(cons1[other].vel, plane_normal)
           perpendicular_velocity == VSub(constraint_vel, Along(constraint_vel, slide_dir))
           other_perpendicular_velocity == VSub(other_vel, Along(other_vel, slide_dir))
           velocity == IF other # NoChoice
                       THEN VAdd(VAdd(velocity_in_slide_dir, perpendicular_velocity),
                                 other_perpendicular_velocity)
                       ELSE new_velocity
           cons2 == IF other # NoChoice
                    THEN [cons1 EXCEPT ![chosen].vel = constraint_vel, ![other].vel = other_vel]
                    ELSE cons1
       IN IF moved.time_remaining < cMinTimeRemaining
          THEN \* not enough time left
               /\ constraints' = cons1
               /\ sc' = moved
               /\ pc' = "ms_store"
          ELSE /\ constraints' = cons2
               /\ sc' = [moved EXCEPT !.velocity = velocity,
                                      !.previous = Append(previous1, chosen),
                                      !.iteration = @ + 1]
               /\ pc' = IF LengthSq(velocity) = 0 THEN "ms_store"
                        ELSE IF SolveLoopContinues(sc.iteration + 1) THEN "sc_iter"
                        ELSE "ms_store"

----------------------------------------------------------------------------
(* MoveShape after SolveConstraints, and GetFirstContactForSweep *)

MaxCastHits == 1     \* most hits a shape cast of the host reports

\* what a shape cast may report: colliders of the world hit at a fraction,
\* with no penetration at the hit
CastFractions == {Unit \div 2, Unit}
CastResults(w) == {[hit |-> [h EXCEPT !.depth = 0], fraction |-> f] : h \in w, f \in CastFractions}
Casts(w) == {q \in SeqsUpTo(CastResults(w), MaxCastHits) :
                \A i, j \in DOMAIN q : i # j => q[i].hit # q[j].hit}

Ignored(ignored, hit) ==
    \E i \in 1..Len(ignored) : ignored[i].body = hit.body /\ ignored[i].sub = hit.sub

\* ContactCastCollector::AddHit on st = [contacts, locks]; the read lock is
\* scoped to the block that fills the contact
ContactCastCollector_AddHit(st, res, mDisplacement, mIgnoredContacts) ==
    IF res.fraction > 0 /\ Dot(res.hit.axis, mDisplacement) > 0
    THEN IF Ignored(mIgnoredContacts, res.hit) THEN st
         ELSE LET locked == Acquire(st.locks, res.hit.body, "read")
                  contact == [sFillContactProperties(res.hit) EXCEPT !.frac = res.fraction]
              IN [contacts |-> Append(st.contacts, contact),
                  locks |-> Release(locked, res.hit.body, "read")]
    ELSE st

RECURSIVE CastShape(_, _, _, _)
CastShape(st, results, mDisplacement, mIgnoredContacts) ==
    IF results = <<>> THEN st
    ELSE CastShape(ContactCastCollector_AddHit(st, Head(results), mDisplacement, mIgnoredContacts),
                   Tail(results), mDisplacement, mIgnoredContacts)

\* the orders the sort on fraction may leave the contacts in
SortedOnFraction(cs) ==
    {[i \in 1..Len(cs) |-> cs[f[i]]] : f \in
        {g \in Orderings(Len(cs)) :
            \A i, j \in 1..Len(cs) : i < j => ~(cs[g[j]].frac < cs[g[i]].frac)}}

\* "*outActiveContacts = contacts", then GetFirstContactForSweep up to its
\* loop over the sorted contacts
MS_Store(results) ==
    /\ pc = "ms_store"
    /\ mActiveContacts' = contacts
    /\ acCapacity' = AssignCapacity(acCapacity, Len(contacts))
    /\ mSupportingContact' = AssignPointer(mSupportingContact, acCapacity, Len(contacts))
    /\ IF LengthSq(sc.displacement) = 0
       THEN \* too small distance -> skip checking
            /\ results = <<>>
            /\ sweep' = NoSweep
            /\ locks' = locks
            /\ pc' = "ms_advance"
       ELSE LET st == CastShape([contacts |-> <<>>, locks |-> locks], results,
                                sc.displacement, ignored_contacts)
            IN /\ locks' = st.locks
               /\ \E sorted \in SortedOnFraction(st.contacts) :
                     sweep' = [NoSweep EXCEPT !.contacts = sorted, !.i = 1]
               /\ pc' = IF st.contacts = <<>> THEN "ms_advance" ELSE "sw_check"
    /\ UNCHANGED <<mPosition, mLinearVelocity, mShape, mCosMaxSlopeAngle, mListener,
                   world, impulses, call, nOps, nUpdates, upd, contacts, ignored_contacts,
                   constraints, sc, rcc>>

\* the fraction of a sweep contact corrected for the padding, without the
\* max with 0
CorrectedFractionUnclamped(c, inDisplacement) ==
    c.frac + RDiv(cCharacterPadding * NUnit * Unit, Dot(c.normal, inDisplacement))
\* the fraction of a sweep contact corrected for the padding
CorrectedFraction(c, inDisplacement) ==
    Max(0, c.frac + RDiv(cCharacterPadding * NUnit * Unit, Dot(c.normal, inDisplacement)))

\* GetFirstContactForSweep returns true with outContact = sweep.contacts[sweep.i]:
\* MoveShape scales the displacement and the time simulated
SW_Found ==
    LET fraction == CorrectedFraction(sweep.contacts[sweep.i], sc.displacement)
    IN /\ sweep' = [sweep EXCEPT !.found = TRUE, !.fraction = fraction]
       /\ sc' = [sc EXCEPT !.displacement = VScale(@, fraction, Unit),
                           !.time_simulated = RDiv(@ * fraction, Unit)]
       /\ pc' = "ms_advance"

\* the loop over the sorted contacts, at contacts[i]
SW_Check ==
    /\ pc = "sw_check"
    /\ UNCHANGED <<character, world, locks, impulses, call, nOps, nUpdates, upd, contacts,
                   ignored_contacts, constraints, rcc>>
    /\ IF sweep.i > Len(sweep.contacts)
       THEN \* no valid contact
            /\ pc' = "ms_advance"
            /\ UNCHANGED <<sweep, sc>>
       ELSE LET c == sweep.contacts[sweep.i]
            IN IF c.dist * NUnit + Dot(c.normal, sc.displacement) < -cCollisionTolerance * NUnit
               THEN IF mListener
                    THEN /\ pc' = "sw_validate"
                         /\ UNCHANGED <<sweep, sc>>
                    ELSE SW_Found
               ELSE /\ sweep' = [sweep EXCEPT !.i = @ + 1]
                    /\ pc' = "sw_check"
                    /\ sc' = sc

\* ValidateContact with a listener; answer is the listener's
SW_Validate(answer) ==
    /\ pc = "sw_validate"
    /\ UNCHANGED <<character, world, locks, impulses, call, nOps, nUpdates, upd, contacts,
                   ignored_contacts, constraints, rcc>>
    /\ IF answer
       THEN SW_Found
       ELSE /\ sweep' = [sweep EXCEPT !.i = @ + 1]
            /\ pc' = "sw_check"
            /\ sc' = sc

\* "update the position", and the end of the move-iteration
MS_Advance ==
    /\ pc = "ms_advance"
    /\ mPosition' = VAdd(mPosition, sc.displacement)
    /\ upd' = [upd EXCEPT !.time_remaining = TimeRemainingAfter(@, sc.time_simulated),
                          !.iteration = @ + 1]
    /\ pc' = IF LengthSq(sc.displacement) = 0 THEN "upd_end"
             ELSE MoveLoopTarget(upd.iteration + 1,
                                 TimeRemainingAfter(upd.time_remaining, sc.time_simulated))
    /\ UNCHANGED <<mLinearVelocity, mShape, mCosMaxSlopeAngle, mListener, mActiveContacts,
                   acCapacity, mSupportingContact, world, locks, impulses, call, nOps, nUpdates,
                   contacts, ignored_contacts, constraints, sc, sweep, rcc>>

\* Update after MoveShape
UpdateEnd ==
    /\ pc = "upd_end"
    /\ mLinearVelocity' = IF upd.dt = 0 THEN NaN3
                          ELSE VScale(VSub(mPosition, upd.old_position), TimeUnit, upd.dt)
    /\ LET r == UpdateSupportingContact(mActiveContacts)
       IN /\ mActiveContacts' = r.active
          /\ mSupportingContact' = r.supporting
    /\ pc' = "idle"
    /\ contacts' = <<>>
    /\ ignored_contacts' = <<>>
    /\ constraints' = <<>>
    /\ sc' = SolveInit(Zero3, 0)
    /\ sweep' = NoSweep
    /\ UNCHANGED <<mPosition, mShape, mCosMaxSlopeAngle, mListener, acCapacity, world,
                   locks, impulses, call, nOps, nUpdates, upd, rcc>>

----------------------------------------------------------------------------
(* The character and its world *)

Velocities == {Zero3, <<2000, -1000, 1000>>}
\* the arguments of Update: no time and no gravity, or a 16 ms step under gravity
UpdateArgs == {[dt |-> 0, gravity |-> Zero3], [dt |-> 160, gravity |-> <<0, -9810, 0>>]}
PenetrationDepths == {15, FLT_MAX}
CosMaxSlopeAngles == {707, Unit}

NoRcc == [in |-> <<>>, out |-> <<>>, ign |-> <<>>, done |-> FALSE]

\* the character and the calls in progress right after the constructor
Fresh ==
    /\ mPosition = Zero3
    /\ mLinearVelocity = Zero3
    /\ mActiveContacts = <<>>
    /\ acCapacity = 0
    /\ mSupportingContact = NullPtr
    /\ locks = {}
    /\ impulses = <<>>
    /\ pc = "idle"
    /\ call = NoCall
    /\ nOps = 0
    /\ nUpdates = 0
    /\ upd = NoUpdate
    /\ contacts = <<>>
    /\ ignored_contacts = <<>>
    /\ constraints = <<>>
    /\ sc = SolveInit(Zero3, 0)
    /\ sweep = NoSweep

Init ==
    /\ Fresh
    /\ mShape \in {NoShape, "standing"}
    /\ mCosMaxSlopeAngle \in CosMaxSlopeAngles
    /\ mListener \in BOOLEAN
    /\ world \in Scenes
    /\ rcc = NoRcc

Next ==
    \/ GetGroundStateCall
    \/ \E v \in Velocities : SetLinearVelocity(v)
    \/ \E hits \in Queries(world) : RefreshContacts(hits)
    \/ \E inShape \in Shapes \cup {NoShape}, d \in PenetrationDepths, hits \in Queries(world) :
          SetShape(inShape, d, hits)
    \/ \E a \in UpdateArgs : UpdateBegin(a.dt, a.gravity)
    \/ \E hits \in Queries(world) : MS_Query(hits)
    \/ \E order \in Orderings(Len(constraints)) : SC_Iter(order)
    \/ SC_Pick
    \/ \E answer \in BOOLEAN : HC_Validate(answer)
    \/ \E p, r \in BOOLEAN : HC_Added(p, r)
    \/ \E succeeded \in BOOLEAN : HC_Lock(succeeded)
    \/ HC_Impulse
    \/ SC_Advance
    \/ \E results \in Casts(world) : MS_Store(results)
    \/ SW_Check
    \/ \E answer \in BOOLEAN : SW_Validate(answer)
    \/ MS_Advance
    \/ UpdateEnd

vars == <<mPosition, mLinearVelocity, mShape, mCosMaxSlopeAngle, mListener,
          mActiveContacts, acCapacity, mSupportingContact, world, locks, impulses,
          pc, call, nOps, nUpdates, upd, contacts, ignored_contacts, constraints, sc,
          sweep, rcc>>

Spec == Init /\ [][Next]_vars

----------------------------------------------------------------------------
(* Harness of RemoveConflictingContacts: every contact list of at most     *)
(* MaxLen contacts over two bodies, opposing and perpendicular normals,    *)
(* and distances on both sides of -cMinRequiredPenetration.                *)

RccContact(b, s, n, d) ==
    [body |-> b, sub |-> s, motion |-> Static, normal |-> n, dist |-> d,
     vel |-> Zero3, frac |-> 0, had |-> FALSE, disc |-> FALSE, push |-> TRUE]

RccNormals == {<<NUnit, 0, 0>>, <<-NUnit, 0, 0>>, <<0, NUnit, 0>>}
RccDistances == {-40, -30, -25, -24}
RccUniverse ==
    {RccContact(b, 1, n, d) : b \in {1}, n \in RccNormals, d \in RccDistances}
    \cup {RccContact(2, 2, <<-NUnit, 0, 0>>, -30), RccContact(2, 3, <<NUnit, 0, 0>>, -30)}

InitRCC ==
    /\ Fresh
    /\ mShape = "standing"
    /\ mCosMaxSlopeAngle = Unit
    /\ mListener = FALSE
    /\ world = {}
    /\ rcc \in {[NoRcc EXCEPT !.in = l] : l \in SeqsUpTo(RccUniverse, MaxLen)}

RccApply ==
    /\ ~rcc.done
    /\ LET r == RemoveConflictingContacts(rcc.in, <<>>)
       IN rcc' = [rcc EXCEPT !.out = r.contacts, !.ign = r.ignored, !.done = TRUE]
    /\ UNCHANGED <<character, world, locks, impulses, pc, call, nOps, frame>>

NextRCC == RccApply

SpecRCC == InitRCC /\ [][NextRCC]_vars

----------------------------------------------------------------------------
(* Harness of GetGroundState: a standing character with every slope limit  *)
(* from vertical to "no limit", among floors, ceilings, ramps and walls,   *)
(* refreshing its contacts and asking for its ground state.                *)

Ramp == Hit(8, 1, Static, <<-60, -80, 0>>, -20, Zero3)

CosRange == {-Unit, 0, 500, 707, 998, 999, Unit}
GroundScenes == {{Ground, Ceiling}, {Slope, Ramp}, {WallA, ZWall}}

InitGround ==
    /\ Fresh
    /\ mShape = "standing"
    /\ mCosMaxSlopeAngle \in CosRange
    /\ mListener = FALSE
    /\ world \in GroundScenes
    /\ rcc = NoRcc

NextGround ==
    \/ GetGroundStateCall
    \/ \E hits \in Queries(world) : RefreshContacts(hits)

SpecGround == InitGround /\ [][NextGround]_vars

----------------------------------------------------------------------------
(* Harness of HandleContact's impulse: the character in HandleContact with *)
(* a dynamic body locked, for contacts in front, below, above and on a     *)
(* slope, touching or penetrating, with and without gravity.               *)

ImpulseNormals == {<<-NUnit, 0, 0>>, <<0, NUnit, 0>>, <<0, -NUnit, 0>>, <<-80, 60, 0>>}
ImpulseDistances == {-5, 10}
ImpulseVelocities == {Zero3, <<2000, -1000, 1000>>, <<3000, 0, 0>>}
Gravities == {Zero3, <<0, -9810, 0>>, <<0, 9810, 0>>}
DeltaTimes == {160, 167}

InitImpulse ==
    /\ mPosition = Zero3
    /\ mShape = "standing"
    /\ mCosMaxSlopeAngle = Unit
    /\ mListener = FALSE
    /\ mActiveContacts = <<>>
    /\ acCapacity = 0
    /\ mSupportingContact = NullPtr
    /\ world = {}
    /\ impulses = <<>>
    /\ call = [NoCall EXCEPT !.op = "Update"]
    /\ nOps = 1
    /\ nUpdates = 1
    /\ ignored_contacts = <<>>
    /\ sweep = NoSweep
    /\ rcc = NoRcc
    /\ pc = "hc_impulse"
    /\ \E n \in ImpulseNormals, d \in ImpulseDistances, v \in ImpulseVelocities,
          g \in Gravities, dt \in DeltaTimes :
          LET contact == [sFillContactProperties(Hit(5, 1, Dynamic, VNeg(n), 0, Zero3))
                             EXCEPT !.dist = d]
          IN /\ mLinearVelocity = v
             /\ contacts = <<contact>>
             /\ constraints = <<Constraint(1, ContactVelocity(contact), n, d)>>
             /\ locks = Acquire({}, contact.body, "write")
             /\ upd = [NoUpdate EXCEPT !.dt = dt, !.gravity = g, !.vin = v,
                                        !.time_remaining = dt, !.iterations = 1]
             /\ sc = [SolveInit(v, dt) EXCEPT !.sorted = <<1>>, !.k = 1, !.hcContact = 1,
                                              !.hcCalls = <<1>>]

NextImpulse == HC_Impulse

SpecImpulse == InitImpulse /\ [][NextImpulse]_vars

----------------------------------------------------------------------------
(* Harness of the sort of SolveConstraints: the character at the start of  *)
(* SolveConstraints with two contacts on different bodies, static,         *)
(* kinematic or dynamic, in front or below, touching, near or far.         *)

SortMotions == {Static, Kinematic, Dynamic}
SortNormals == {<<-NUnit, 0, 0>>, <<0, NUnit, 0>>}
SortDistances == {0, 10, 40}
SortUniverse ==
    {[sFillContactProperties(Hit(m + 1, 1, m, VNeg(n), 0, Zero3)) EXCEPT !.dist = d] :
        m \in SortMotions, n \in SortNormals, d \in SortDistances}

InitSort ==
    /\ mPosition = Zero3
    /\ mShape = "standing"
    /\ mCosMaxSlopeAngle = Unit
    /\ mListener = FALSE
    /\ mActiveContacts = <<>>
    /\ acCapacity = 0
    /\ mSupportingContact = NullPtr
    /\ world = {}
    /\ locks = {}
    /\ impulses = <<>>
    /\ call = [NoCall EXCEPT !.op = "Update"]
    /\ nOps = 1
    /\ nUpdates = 1
    /\ ignored_contacts = <<>>
    /\ sweep = NoSweep
    /\ rcc = NoRcc
    /\ pc = "sc_iter"
    /\ mLinearVelocity = <<2000, -1000, 1000>>
    /\ upd = [NoUpdate EXCEPT !.dt = 160, !.gravity = <<0, -9810, 0>>, !.vin = mLinearVelocity,
                               !.time_remaining = 160, !.iterations = 1]
    /\ contacts \in {<<c1, c2>> : c1, c2 \in SortUniverse}
    /\ contacts[1].body # contacts[2].body
    /\ constraints = DetermineConstraints(mLinearVelocity, contacts)
    /\ sc = [SolveInit(mLinearVelocity, 160) EXCEPT !.hcCalls = <<0, 0>>]

NextSort ==
    \/ \E order \in Orderings(Len(constraints)) : SC_Iter(order)
    \/ SC_Pick

SpecSort == InitSort /\ [][NextSort]_vars

----------------------------------------------------------------------------
(* The claims *)

NoConflictingPair(cs) ==
    \A i, j \in 1..Len(cs) :
        i # j =>
            ~(/\ cs[i].body = cs[j].body
              /\ cs[i].dist <= -cMinRequiredPenetration
              /\ cs[j].dist <= -cMinRequiredPenetration
              /\ Dot(cs[i].normal, cs[j].normal) < 0)

(* C1: after RemoveConflictingContacts returns, no two surviving contacts  *)
(* of the same body, both with distance <= -cMinRequiredPenetration, have  *)
(* normals with a negative dot product.                                    *)
C1_NoConflictAfterPruning == rcc.done => NoConflictingPair(rcc.out)

\* C1: pruning ran on a list with a conflicting pair and removed something
C1_Witness ==
    /\ rcc.done
    /\ ~NoConflictingPair(rcc.in)
    /\ Len(rcc.out) < Len(rcc.in)
    /\ Len(rcc.out) >= 2

\* a public call that sets the supporting contact has returned
Returned == pc = "idle" /\ call.op \in {"Update", "RefreshContacts", "SetShape"}

\* the contacts of mActiveContacts that had a collision
Colliding == {i \in 1..Len(mActiveContacts) : mActiveContacts[i].had}

(* C2: after Update, RefreshContacts or SetShape returns, in any sequence  *)
(* of these calls, mSupportingContact is null or points to an element of   *)
(* the current buffer of mActiveContacts whose mHadCollision is true.      *)
C2_SupportingContactValid ==
    Returned =>
        \/ mSupportingContact = NullPtr
        \/ /\ mSupportingContact.buf = "cur"
           /\ mSupportingContact.idx \in Colliding

\* C2: the second call returned with a supporting contact, after an Update
\* that stored more contacts than the buffer of the first call held
C2_Witness ==
    /\ Returned
    /\ nOps = 2
    /\ call.op = "Update"
    /\ mSupportingContact # NullPtr
    /\ Len(mActiveContacts) = 2
    /\ \E i \in 1..2 : ~mActiveContacts[i].had

(* C3 as claimed: after Update, RefreshContacts or SetShape a supporting   *)
(* contact that is not null has normal.y >= 0.                             *)
C3_SupportingNormalUp ==
    (Returned /\ mSupportingContact # NullPtr) =>
        GetY(mActiveContacts[mSupportingContact.idx].normal) >= 0

(* C3 as amended: after Update, RefreshContacts or SetShape the supporting *)
(* contact is null exactly when no active contact had a collision, and     *)
(* otherwise it is a contact that had a collision and whose normal.y is    *)
(* the largest among those, whatever its sign.                             *)
C3_SupportingIsHighest ==
    Returned =>
        IF Colliding = {}
        THEN mSupportingContact = NullPtr
        ELSE /\ mSupportingContact.buf = "cur"
             /\ mSupportingContact.idx \in Colliding
             /\ \A j \in Colliding :
                   GetY(mActiveContacts[j].normal)
                       <= GetY(mActiveContacts[mSupportingContact.idx].normal)

\* C3: the supporting contact is a ceiling, the only contact that collided
C3_Witness ==
    /\ Returned
    /\ mSupportingContact # NullPtr
    /\ Cardinality(Colliding) = 1
    /\ GetY(mActiveContacts[mSupportingContact.idx].normal) < 0

\* the normal.y of the supporting contact
SupportingY == GetY(mActiveContacts[mSupportingContact.idx].normal)

(* C4 as claimed: GetGroundState returns InAir exactly when the supporting *)
(* contact is null, Sliding exactly when there is a supporting contact     *)
(* with normal.y in [0, mCosMaxSlopeAngle), and OnGround otherwise.        *)
C4_GroundStateAsClaimed ==
    (pc = "idle" /\ call.op = "GetGroundState") =>
        call.ground =
            IF mSupportingContact = NullPtr THEN "InAir"
            ELSE IF SupportingY >= 0 /\ SupportingY < mCosMaxSlopeAngle THEN "Sliding"
            ELSE "OnGround"

(* C4 as amended: GetGroundState returns InAir exactly when the supporting *)
(* contact is null, Sliding exactly when mCosMaxSlopeAngle < 0.999 and     *)
(* there is a supporting contact with normal.y in [0, mCosMaxSlopeAngle),  *)
(* and OnGround otherwise.                                                 *)
C4_GroundStateWithNoLimit ==
    (pc = "idle" /\ call.op = "GetGroundState") =>
        /\ (call.ground = "InAir") <=> (mSupportingContact = NullPtr)
        /\ (call.ground = "Sliding") <=>
              /\ mSupportingContact # NullPtr
              /\ 1000 * mCosMaxSlopeAngle < 999 * Unit
              /\ SupportingY >= 0
              /\ SupportingY < mCosMaxSlopeAngle
        /\ call.ground \in {"InAir", "Sliding", "OnGround"}

\* C4: GetGroundState has answered OnGround on a slope steeper than a slope
\* limit that is at least 0.999
C4_Witness ==
    /\ pc = "idle" /\ call.op = "GetGroundState"
    /\ call.ground = "OnGround"
    /\ mSupportingContact # NullPtr
    /\ SupportingY > 0
    /\ SupportingY < mCosMaxSlopeAngle

\* SolveConstraints has returned to MoveShape, which has not yet taken
\* time_simulated off time_remaining
Solved == pc \in {"ms_store", "sw_check", "sw_validate", "ms_advance"}

(* C5: in every move-iteration the time_simulated that SolveConstraints    *)
(* returns, also after the scaling by the fraction of the sweep, is in     *)
(* [0, time_remaining]; time_remaining is never negative and the time      *)
(* simulated by one Update is in [0, inDeltaTime].                         *)
C5_TimeSimulatedInRange ==
    /\ Solved => (0 <= sc.time_simulated /\ sc.time_simulated <= upd.time_remaining)
    /\ 0 <= upd.time_remaining
    /\ upd.time_remaining <= upd.dt

\* C5: a move-iteration whose sweep found a contact, which left a part of
\* the time that SolveConstraints had simulated
C5_Witness ==
    /\ pc = "ms_advance"
    /\ sweep.found
    /\ sweep.fraction < Unit
    /\ 0 < sc.time_simulated
    /\ sc.time_simulated < upd.time_remaining

\* the length of a velocity, rounded down
Speed(v) == ISqrt(LengthSq(v))
\* what the rounding of the position to a millimetre, once for every
\* move-iteration, is in velocity
SpeedResolution(dt) == RDiv(cMaxCollisionIterations * TimeUnit, dt)
\* |linear_velocity_new| <= |linear_velocity_in| + |gravity| dt + epsilon
SpeedBounded ==
    Speed(mLinearVelocity)
        <= Speed(upd.vin) + 1 + RDiv(Speed(upd.gravity) * upd.dt, TimeUnit)
           + SpeedResolution(upd.dt)

(* C6 as claimed: the magnitude of the velocity that Update writes back is *)
(* at most the magnitude of the velocity it found plus |gravity| dt plus   *)
(* epsilon, whatever the contacts (for a time step above 0).               *)
C6_SpeedBounded ==
    (pc = "idle" /\ call.op = "Update" /\ upd.dt > 0) => SpeedBounded

(* C6 as amended: for a time step above 0 and when no contact found during *)
(* the Update is on a moving body or penetrates (distance < 0 after the    *)
(* padding), the magnitude of the velocity that Update writes back is at   *)
(* most the magnitude of the velocity it found plus |gravity| dt plus      *)
(* epsilon.                                                                *)
C6_SpeedBoundedWhenCalm ==
    (pc = "idle" /\ call.op = "Update" /\ upd.dt > 0 /\ upd.calm) => SpeedBounded

\* C6: an Update of a moving character that slid along a contact in two
\* move-iterations or more and lost speed
C6_Witness ==
    /\ pc = "idle" /\ call.op = "Update"
    /\ upd.dt > 0
    /\ upd.calm
    /\ upd.iteration >= 2
    /\ upd.vin # Zero3
    /\ mLinearVelocity # Zero3
    /\ Speed(mLinearVelocity) < Speed(upd.vin)

\* SetShape was called on an initialised character with another shape
NewShapeCalled ==
    /\ pc = "idle" /\ call.op = "SetShape"
    /\ call.preShape # NoShape
    /\ call.shape # NoShape
    /\ call.shape # call.preShape

\* the same contacts, whatever their flags of collision
SameContacts(a, b) ==
    /\ Len(a) = Len(b)
    /\ \A i \in 1..Len(a) : [a[i] EXCEPT !.had = FALSE] = [b[i] EXCEPT !.had = FALSE]

UpdateOfNothing ==
    /\ call.op = "Update"
    /\ upd.dt = 0
    /\ upd.gravity = Zero3
    /\ upd.vin = Zero3

(* C8: Update with inDeltaTime = 0 and no gravity, for a character with no *)
(* velocity, runs no move-iteration and leaves the position where it was,  *)
(* while it runs and when it has returned.                                 *)
C8_UpdateOfNothingKeepsPosition ==
    UpdateOfNothing => (mPosition = upd.old_position /\ upd.iterations = 0)

\* C8: such an Update has returned, for a character that touches the world
C8_Witness ==
    /\ UpdateOfNothing
    /\ pc = "idle"
    /\ mActiveContacts # <<>>
    /\ mSupportingContact # NullPtr

(* C9 as claimed: HandleContact returns false only when the listener's     *)
(* OnContactValidate vetoes the contact.                                   *)
C9_FalseOnlyOnVeto == sc.hcRet = "false" => sc.hcVetoed

(* C9 as amended: HandleContact returns false when the listener's          *)
(* OnContactValidate vetoes the contact and when the body, dynamic and     *)
(* allowed to receive impulses, cannot be locked; in every other case it   *)
(* returns true.                                                           *)
C9_FalseOnVetoOrLockFailure ==
    sc.hcRet # "none" => (sc.hcRet = "false" <=> (sc.hcVetoed \/ sc.hcLockFailed))

\* C9: HandleContact returned false because the body could not be locked,
\* after the listener accepted the contact
C9_Witness ==
    /\ sc.hcRet = "false"
    /\ sc.hcLockFailed
    /\ ~sc.hcVetoed
    /\ mListener

(* C10: no body lock is held while OnContactValidate or OnContactAdded     *)
(* runs, from HandleContact or from the validation of the sweep, and every *)
(* lock taken for a hit or an impulse is released when the step that took  *)
(* it returns: a lock is held only between the locking of the body and the *)
(* return of HandleContact.                                                *)
C10_NoLockOutsideImpulse ==
    /\ pc # "hc_impulse" => locks = {}
    /\ pc = "hc_impulse" =>
          locks = {[body |-> contacts[sc.hcContact].body, mode |-> "write"]}

\* C10: the listener is called after a body was locked for an impulse
C10_Witness ==
    /\ mListener
    /\ pc \in {"hc_validate", "hc_added", "sw_validate"}
    /\ impulses # <<>>
    /\ locks = {}

----------------------------------------------------------------------------
(* C11: every Update call terminates, for any contacts and any listener     *)
(* answers: MoveShape runs at most cMaxCollisionIterations move-iterations, *)
(* a SolveConstraints call at most cMaxConstraintIterations solver          *)
(* iterations, and previous_contacts never holds more than                  *)
(* cMaxConstraintIterations entries.                                        *)

LoopsBounded ==
    /\ upd.iteration <= cMaxCollisionIterations
    /\ upd.iterations <= cMaxCollisionIterations
    /\ sc.iteration <= cMaxConstraintIterations
    /\ Len(sc.previous) <= cMaxConstraintIterations
    \* previous_contacts[num_previous_contacts] is written inside the array
    /\ pc = "sc_advance" => Len(sc.previous) < cMaxConstraintIterations

\* the steps an Update in progress can take at most before it returns: the
\* move-iterations left, in each the solver iterations left, in each the
\* sorted constraints left to look at, then the sweep contacts left
SolveSteps == 6 * (2 * MaxContacts + 2)
MoveSteps == (cMaxConstraintIterations + 1) * SolveSteps + 2 * MaxCastHits + 10
StepsLeft ==
    LET picks == 6 * (Len(sc.sorted) + 1 - sc.k)
        solves == (cMaxConstraintIterations - sc.iteration) * SolveSteps
        checks == 2 * (Len(sweep.contacts) + 1 - sweep.i)
        within == CASE pc = "ms_query"    -> MoveSteps - 1
                    [] pc = "sc_iter"     -> solves + SolveSteps - 1 + 2 * MaxCastHits + 8
                    [] pc = "sc_pick"     -> solves + picks + 5 + 2 * MaxCastHits + 8
                    [] pc = "hc_validate" -> solves + picks + 4 + 2 * MaxCastHits + 8
                    [] pc = "hc_added"    -> solves + picks + 3 + 2 * MaxCastHits + 8
                    [] pc = "hc_lock"     -> solves + picks + 2 + 2 * MaxCastHits + 8
                    [] pc = "hc_impulse"  -> solves + picks + 1 + 2 * MaxCastHits + 8
                    [] pc = "sc_advance"  -> solves + 2 * MaxCastHits + 8
                    [] pc = "ms_store"    -> 2 * MaxCastHits + 7
                    [] pc = "sw_check"    -> checks + 4
                    [] pc = "sw_validate" -> checks + 3
                    [] pc = "ms_advance"  -> 2
                    [] OTHER              -> 0
    IN CASE pc = "idle"    -> 0
         [] pc = "upd_end" -> 1
         [] OTHER          -> (cMaxCollisionIterations - 1 - upd.iteration) * MoveSteps + within + 2

C11_UpdateTerminates ==
    /\ []LoopsBounded
    /\ [][pc # "idle" => StepsLeft' >= 0 /\ StepsLeft' < StepsLeft]_vars

\* SolveConstraints returns because it ran out of iterations, with
\* previous_contacts full
C11_Witness ==
    /\ pc = "ms_store"
    /\ sc.iteration = cMaxConstraintIterations
    /\ Len(sc.previous) = cMaxConstraintIterations
    /\ LengthSq(sc.velocity) # 0

----------------------------------------------------------------------------
(* C12: the impulses HandleContact gives to a dynamic body.                 *)

\* the square of the length of an impulse is at most that of max_impulse
WithinStrength(impulse, dt) == LengthSq(impulse) <= MaxImpulse(dt) * MaxImpulse(dt)

\* C12 as claimed: every impulse passed to AddImpulse has a magnitude of at
\* most mMaxStrength * inDeltaTime, for every contact normal and gravity
C12_ImpulseWithinStrength ==
    \A i \in 1..Len(impulses) : WithinStrength(impulses[i].impulse, impulses[i].dt)

\* C12: every impulse passed to AddImpulse is the impulse along the normal,
\* of a magnitude of at most mMaxStrength * inDeltaTime, plus the gravity
\* share when the normal points against gravity; so its magnitude is at most
\* mMaxStrength * inDeltaTime when normal . gravity >= 0
C12_NormalImpulseWithinStrength ==
    \A i \in 1..Len(impulses) :
        LET e == impulses[i]
            share == GravityShare(e.normal, e.gravity, e.dt)
        IN /\ WithinStrength(VAdd(e.impulse, share), e.dt)
           /\ Dot(e.normal, e.gravity) >= 0 => WithinStrength(e.impulse, e.dt)

\* C12: an impulse that the clamp cut down to mMaxStrength * inDeltaTime
C12_Witness ==
    /\ pc = "sc_advance"
    /\ Len(impulses) = 1
    /\ Dot(impulses[1].normal, impulses[1].gravity) >= 0
    /\ LengthSq(impulses[1].impulse) = MaxImpulse(impulses[1].dt) * MaxImpulse(impulses[1].dt)

----------------------------------------------------------------------------
(* C13: the tie break of the solver's sort.                                 *)

\* C13: after the sort, of two constraints with equal times of impact that
\* are not both at or before 0, the one on the body of the lesser motion
\* type (Static < Kinematic < Dynamic) comes first
C13_StaticSortsFirst ==
    pc = "sc_pick" =>
        \A i, j \in 1..Len(sc.sorted) :
            LET lhs == constraints[sc.sorted[i]]
                rhs == constraints[sc.sorted[j]]
            IN (/\ lhs.toi = rhs.toi
                /\ ~(lhs.toi <= 0 /\ rhs.toi <= 0)
                /\ contacts[lhs.contact].motion < contacts[rhs.contact].motion)
               => i < j

----------------------------------------------------------------------------
(* C14: what RemoveConflictingContacts removes.                             *)

\* contacts a and b are a conflicting pair: same body, both penetrating
\* beyond cMinRequiredPenetration, opposing normals
InConflict(a, b) ==
    /\ a.body = b.body
    /\ a.dist <= -cMinRequiredPenetration
    /\ b.dist <= -cMinRequiredPenetration
    /\ Dot(a.normal, b.normal) < 0

\* the ways to find the contacts of out, in order, among those of in
Embeddings(in, out) ==
    {f \in [1..Len(out) -> 1..Len(in)] :
        /\ \A i, j \in 1..Len(out) : i < j => f[i] < f[j]
        /\ \A i \in 1..Len(out) : in[f[i]] = out[i]}

\* the number of entries of the sequence s, at the indices in I, whose key is k
Count(s, I, k) == Cardinality({i \in I : [body |-> s[i].body, sub |-> s[i].sub] = k})

\* C14: the contacts left are contacts of the input in their order; every
\* removed contact is in a conflicting pair with a contact that penetrates at
\* least as much (so a contact in no conflicting pair is not removed); the
\* ignored entries are the (body, sub shape) of the removed contacts, one
\* entry for each removed contact
C14_RemovesLesserOfConflict ==
    rcc.done =>
        \E f \in Embeddings(rcc.in, rcc.out) :
            LET removed == (1..Len(rcc.in)) \ {f[i] : i \in 1..Len(rcc.out)}
            IN /\ \A r \in removed :
                     \E p \in (1..Len(rcc.in)) \ {r} :
                        /\ InConflict(rcc.in[r], rcc.in[p])
                        /\ rcc.in[r].dist >= rcc.in[p].dist
               /\ Len(rcc.ign) = Cardinality(removed)
               /\ \A r \in removed :
                     LET k == [body |-> rcc.in[r].body, sub |-> rcc.in[r].sub]
                     IN Count(rcc.ign, 1..Len(rcc.ign), k) = Count(rcc.in, removed, k)

\* C14: pruning removed the lesser of a conflicting pair and kept a contact
\* that conflicts with nothing
C14_Witness ==
    /\ rcc.done
    /\ Len(rcc.in) = 3
    /\ Len(rcc.out) = 2
    /\ \E i \in 1..2 : \A j \in 1..3 : ~InConflict(rcc.out[i], rcc.in[j])
    /\ \E i \in 1..2, j \in 1..3 :
          InConflict(rcc.out[i], rcc.in[j]) /\ rcc.out[i].dist < rcc.in[j].dist

----------------------------------------------------------------------------
(* C15: HandleContact and the flags of a contact within SolveConstraints.   *)

InHandleContact(i) ==
    pc \in {"hc_validate", "hc_added", "hc_lock", "hc_impulse"} /\ sc.hcContact = i

\* C15: in one call of SolveConstraints HandleContact is called at most once
\* for a contact, whatever the number of its constraints; when it has
\* returned the contact has exactly one of mHadCollision and mWasDiscarded,
\* before the call it has neither; no contact has both; the constraint the
\* solver collides with is never one of a discarded contact
C15_HandleContactOncePerContact ==
    /\ Len(sc.hcCalls) = Len(contacts)
    /\ \A i \in 1..Len(contacts) :
          /\ sc.hcCalls[i] <= 1
          /\ ~(contacts[i].had /\ contacts[i].disc)
          /\ (contacts[i].had \/ contacts[i].disc) <=> (sc.hcCalls[i] = 1 /\ ~InHandleContact(i))
    /\ \A i \in 1..Len(mActiveContacts) : ~(mActiveContacts[i].had /\ mActiveContacts[i].disc)
    /\ pc = "sc_advance" =>
          LET contact == contacts[constraints[sc.sorted[sc.k]].contact]
          IN contact.had /\ ~contact.disc

\* C15: the solver looks at the second constraint of a contact for which
\* HandleContact was called already, in time to collide with it
C15_Witness ==
    /\ pc = "sc_pick"
    /\ sc.k <= Len(sc.sorted)
    /\ LET c == constraints[sc.sorted[sc.k]]
       IN /\ c.toi < sc.time_remaining
          /\ sc.hcCalls[c.contact] = 1
          /\ contacts[c.contact].disc
          /\ \E j \in 1..(sc.k - 1) : constraints[sc.sorted[j]].contact = c.contact

----------------------------------------------------------------------------
(* C16: the contact GetFirstContactForSweep returns.                        *)

\* the contacts the cast collected: none is ignored, each has a fraction in
\* (0, 1] and a normal against the displacement
SweepContactsCollected ==
    pc \in {"sw_check", "sw_validate"} =>
        \A i \in 1..Len(sweep.contacts) :
            /\ ~Ignored(ignored_contacts, sweep.contacts[i])
            /\ 0 < sweep.contacts[i].frac /\ sweep.contacts[i].frac <= Unit
            /\ Dot(sweep.contacts[i].normal, sc.displacement) < 0

\* v is w made shorter, not longer and not reversed, component by component
Shortened(v, w) == \A i \in 1..3 : Abs(v[i]) <= Abs(w[i]) /\ v[i] * w[i] >= 0

\* C16: the contact GetFirstContactForSweep returns is not in
\* ignored_contacts and its corrected fraction is in [0, f], f in (0, 1] its
\* fraction in the cast; MoveShape's displacement and time_simulated, scaled
\* by it, get no longer and are not reversed
C16_SweepFractionInRange ==
    /\ []SweepContactsCollected
    /\ [][sweep'.found /\ ~sweep.found =>
             LET c == sweep.contacts[sweep.i]
             IN /\ sweep'.contacts[sweep'.i] = c
                /\ ~Ignored(ignored_contacts, c)
                /\ 0 <= sweep'.fraction /\ sweep'.fraction <= c.frac /\ c.frac <= Unit
                /\ Shortened(sc'.displacement, sc.displacement)
                /\ 0 <= sc'.time_simulated /\ sc'.time_simulated <= sc.time_simulated]_vars

\* C16: the sweep returned a contact whose corrected fraction is above 0 and
\* below its fraction in the cast
C16_Witness ==
    /\ pc = "ms_advance"
    /\ sweep.found
    /\ 0 < sweep.fraction
    /\ sweep.fraction < sweep.contacts[sweep.i].frac

----------------------------------------------------------------------------
(* C17: the supporting contact when the listener is called during Update.   *)

\* the listener is being called: OnContactValidate or OnContactAdded
InListener == mListener /\ pc \in {"hc_validate", "hc_added", "sw_validate"}

\* C17: at every call of the listener during Update mSupportingContact is
\* null or refers to an element of the current mActiveContacts, the contact
\* it referred to when Update was called
C17_SupportingContactAtCallbacks ==
    InListener =>
        \/ mSupportingContact = NullPtr
        \/ /\ mSupportingContact.buf = "cur"
           /\ mSupportingContact.idx \in 1..Len(mActiveContacts)
           /\ IgnoredContact(mActiveContacts[mSupportingContact.idx]) = upd.supported

=============================================================================
